---- MODULE Spec2Model ----
(***************************************************************************)
(* Feature alignment and prediction dispatch of the Nova model servers.    *)
(*                                                                         *)
(* Two serving programs are modelled, selected by the variable impl:       *)
(*   "model"  : src/model/serve.py            (globals MODEL, SCHEMA)      *)
(*   "backup" : src/model-bot-backup/serve.py (server.model, .metadata)    *)
(* and, as a third program, the operator tool                              *)
(*   "approve_intent" : src/tools/nova-ops/approve_intent.py               *)
(*                                                                         *)
(* Numbers are fixed point.  Model outputs are in units of 1/Scale, so the *)
(* decision boundary 0.5 is the integer Half.  Cells of a scaled vector    *)
(* are in units of 1/CellUnit.                                             *)
(***************************************************************************)
EXTENDS Integers, Sequences, FiniteSets, TLC

\* ---------------------------------------------------------------- bounds
NArtifacts == 12
MaxBatch == 2
MaxCount == 3
MaxNum == 2

\* ------------------------------------------------------ fixed-point units
\* 0.5, the decision boundary, in units of 1/Scale
Half == 5
Scale == 2 * Half

\* ----------------------------------------------------------------- values
\* A scalar of a feature record: Union[float, int, str].
Num(n) == [num |-> TRUE, n |-> n, s |-> ""]
Str(s) == [num |-> FALSE, n |-> 0, s |-> s]

Categories == {"x", "y", "z"}
Values == {Num(n) : n \in 0..MaxNum} \cup {Str(s) : s \in Categories}

\* The keys a request may carry: the schema's features and one extra key.
Names == {"a", "b", "e"}

\* features: Dict[str, Union[float, int, str]]
FeatureDicts ==
  UNION {[K -> Values] : K \in SUBSET Names}

Records ==
  {r \in FeatureDicts : "e" \in DOMAIN r => r["e"] = Num(0)}

\* The records batches are built from: a complete record of each kind, one
\* with a missing feature, one with a non-numeric value, one with an extra key.
BatchRecords ==
  { [a |-> Num(1), b |-> Str("x")],
    [a |-> Num(2), b |-> Str("y")],
    [a |-> Num(0), b |-> Str("z")],
    [a |-> Num(1)],
    [a |-> Str("x"), b |-> Str("x")],
    [a |-> Num(0), b |-> Str("y"), e |-> Num(0)] }

Batches ==
  UNION {[1..n -> BatchRecords] : n \in 1..MaxBatch}

\* the largest batch a request may carry: len(v) > 1000 is refused
BatchLimit == 1000

\* Requests at and past the limit repeat one record, which lacks feature b.
AtLimit == [i \in 1..BatchLimit |-> [a |-> Num(1)]]
OverLimit == [i \in 1..(BatchLimit + 1) |-> [a |-> Num(1)]]

\* the lists a batch request may carry: none, a few, the limit, one more
BatchRequests == Batches \cup {<<>>, AtLimit, OverLimit}

\* str(v) as pandas astype(str) renders a scalar of the record
NumStr(n) == IF n = 0 THEN "0" ELSE IF n = 1 THEN "1" ELSE IF n = 2 THEN "2" ELSE "3"
astype_str(v) == IF v.num THEN NumStr(v.n) ELSE v.s

\* lexicographic rank of the strings that occur as categories
StrRank(s) ==
  IF s = "0" THEN 0 ELSE IF s = "1" THEN 1 ELSE IF s = "2" THEN 2
  ELSE IF s = "3" THEN 3 ELSE IF s = "x" THEN 10 ELSE IF s = "y" THEN 11 ELSE 12

RECURSIVE SumSeq(_)
SumSeq(q) == IF q = <<>> THEN 0 ELSE Head(q) + SumSeq(Tail(q))

\* ------------------------------------------------------- python scalars
\* A value returned to the caller: an int, a float (fixed point), a list of
\* floats, an ndarray left as it came from the backend, or None.
PyNone == [kind |-> "none", v |-> 0, vec |-> <<>>]
PyInt(n) == [kind |-> "int", v |-> n, vec |-> <<>>]
PyFloat(n) == [kind |-> "float", v |-> n, vec |-> <<>>]
PyList(q) == [kind |-> "list", v |-> 0, vec |-> q]
PyArray(q) == [kind |-> "ndarray", v |-> 0, vec |-> q]

Abs(n) == IF n < 0 THEN 0 - n ELSE n

IntGtHalf_ge(raw) == IF raw >= Half THEN 1 ELSE 0

\* int(pred > 0.5)
IntGtHalf(raw) == IF raw > Half THEN 1 ELSE 0

py_float_int(raw) == PyInt(raw \div Scale)

\* float(pred)
py_float(raw) == PyFloat(raw)

\* ------------------------------------------------------------- artifacts
\* What a training run leaves on disk, indexed by the run.
ArtifactIds == 0..(NArtifacts - 1)

ModelTypeOf(v) == IF v % 2 = 0 THEN "lightgbm" ELSE "xgboost"
TaskTypeOf(v) == IF (v \div 2) % 2 = 0 THEN "classification" ELSE "regression"
FeatureOrderOf(v) == IF (v \div 4) % 2 = 0 THEN <<"a", "b">> ELSE <<"b", "a">>

\* The training frame: column a is numeric, column b holds strings.
TrainingCategories == {"x", "y"}
ObjectColumns == <<"b">>

SeqRange(q) == {q[i] : i \in DOMAIN q}

\* categories of pd.Categorical / classes_ of LabelEncoder: sorted unique values
SortedUnique(S) ==
  CHOOSE q \in [1..Cardinality(S) -> S] :
    /\ SeqRange(q) = S
    /\ \A i, j \in DOMAIN q : i < j => StrRank(q[i]) < StrRank(q[j])

\* code of a value among sorted categories (0-based), -1 when it is not one
CodeOf(classes, s) ==
  IF s \in SeqRange(classes)
    THEN (CHOOSE i \in DOMAIN classes : classes[i] = s) - 1
    ELSE 0 - 1

\* NovaModelTrainer.preprocess_data: X[col] = pd.Categorical(X[col]).codes
TrainerCode(s) == CodeOf(SortedUnique(TrainingCategories), s)

\* schema.json as preprocess_data and save_model_and_schema write it
\* lacks holds the keys the document does not have; a key it lacks reads as
\* empty here and raises KeyError where the server subscripts it
NoSchema ==
  [none |-> TRUE, lacks |-> {}, feature_names |-> <<>>,
   categorical_columns |-> <<>>,
   task_type |-> "", model_type |-> "", training_timestamp |-> 0 - 1]

TrainedSchema(v) ==
  [none |-> FALSE, lacks |-> {}, feature_names |-> FeatureOrderOf(v),
   categorical_columns |-> ObjectColumns,
   task_type |-> TaskTypeOf(v), model_type |-> ModelTypeOf(v),
   training_timestamp |-> v]

\* the keys load_model subscripts after it has read the document
RequiredKeys == {"feature_names", "model_type", "task_type"}

\* a schema.json of run v that is valid JSON but has no key k
SchemaLacking(v, k) ==
  [none |-> FALSE, lacks |-> {k},
   feature_names |-> IF k = "feature_names" THEN <<>> ELSE FeatureOrderOf(v),
   categorical_columns |-> ObjectColumns,
   task_type |-> IF k = "task_type" THEN "" ELSE TaskTypeOf(v),
   model_type |-> IF k = "model_type" THEN "" ELSE ModelTypeOf(v),
   training_timestamp |-> v]

\* model.pkl: the Booster returned by lgb.train / xgb.train
NoModel == [none |-> TRUE, kind |-> "", task |-> "", ts |-> 0 - 1]
TrainedModel(v) ==
  [none |-> FALSE, kind |-> ModelTypeOf(v), task |-> TaskTypeOf(v), ts |-> v]

\* ------------------------------------------------------------ the backend
\* The trained model is opaque: a deterministic function of the row.  Rows
\* are weighted by position so that column order matters.
RowHash(X) == SumSeq([i \in DOMAIN X |-> i * X[i].n])

\* objective binary / binary:logistic gives P(class = 1) in [0, 1];
\* a regression objective gives an unbounded value.
BoosterRaw(model, X) ==
  IF model.task = "classification"
    THEN (4 + model.ts + 4 * RowHash(X) + 4 * (Scale + 1)) % (Scale + 1)
    ELSE model.ts + 3 * RowHash(X)

\* a frame with an object column is refused by both libraries
AllNumeric(X) == \A i \in DOMAIN X : X[i].num

\* ------------------------------------------------------------- the frame
\* A dict holds its keys in insertion order; KeyOrders are the orders a
\* request may carry them in, KeyOrder the one this request does.
KeyOrders(features) ==
  {q \in [1..Cardinality(DOMAIN features) -> DOMAIN features] :
     SeqRange(q) = DOMAIN features}
KeyOrder(features) == CHOOSE q \in KeyOrders(features) : TRUE

\* pd.DataFrame([features]): one row, a column per key, in the dict's order
DataFrame(order, features) ==
  [columns |-> order, row |-> [i \in DOMAIN order |-> features[order[i]]]]

GetColumns_positional(df, names) == [i \in DOMAIN names |-> df.row[i]]

GetColumns_tail(df, names) ==
  [i \in DOMAIN names |-> df.row[Len(df.row) - Len(names) + i]]

\* df[names]: the columns with these labels, in the order of names
GetColumns(df, names) ==
  [i \in DOMAIN names |->
     df.row[CHOOSE j \in DOMAIN df.columns : df.columns[j] = names[i]]]

\* ------------------------------------------- src/model/serve.py: alignment
Ok(X) == [ok |-> TRUE, err |-> "", cause |-> "", names |-> {}, X |-> X]
Raise(e, S) == [ok |-> FALSE, err |-> e, cause |-> "", names |-> S, X |-> <<>>]

\* pd.Categorical(df[col].astype(str)).codes on the one-row frame: the only
\* category is the row's own value, so its code is 0
SingleRowCode(v) == CodeOf(SortedUnique({astype_str(v)}), astype_str(v))

preprocess_features(schema, features) ==
  IF schema.none THEN Raise("RuntimeError: Schema not loaded", {})
  ELSE IF "feature_names" \in schema.lacks
    THEN Raise("KeyError: 'feature_names'", {})
  ELSE
    LET required_features == SeqRange(schema.feature_names)
        provided_features == DOMAIN features
        missing_features == required_features \ provided_features
    IN  IF missing_features # {}
          THEN Raise("ValueError: Missing required features", missing_features)
          ELSE
            LET df == GetColumns(DataFrame(KeyOrder(features), features),
                                 schema.feature_names)
                enc == [i \in DOMAIN df |->
                         IF schema.feature_names[i] \in SeqRange(schema.categorical_columns)
                           THEN Num(SingleRowCode(df[i]))
                           ELSE df[i]]
            IN  Ok(enc)

\* -------------------------------------------- src/model/serve.py: predict
\* The outcome of one call.  A single call returns (prediction, confidence),
\* a batch call (predictions, confidences); confidences is a list or None.
\* raws are the backend's outputs, calls counts the invocations of the
\* backend, added is what the call adds to prediction_count.
NoList == [none |-> TRUE, items |-> <<>>]
ListOf(q) == [none |-> FALSE, items |-> q]

Returned_uncounted(pred, conf, raws, calls) ==
  [ok |-> TRUE, err |-> "", cause |-> "", names |-> {},
   prediction |-> pred, confidence |-> conf,
   predictions |-> <<>>, confidences |-> NoList,
   raws |-> raws, calls |-> calls, added |-> 0]

Returned(pred, conf, raws, calls) ==
  [ok |-> TRUE, err |-> "", cause |-> "", names |-> {},
   prediction |-> pred, confidence |-> conf,
   predictions |-> <<>>, confidences |-> NoList,
   raws |-> raws, calls |-> calls, added |-> 1]
ReturnedBatch(preds, confs, raws, calls) ==
  [ok |-> TRUE, err |-> "", cause |-> "", names |-> {},
   prediction |-> PyNone, confidence |-> PyNone,
   predictions |-> preds, confidences |-> confs,
   raws |-> raws, calls |-> calls, added |-> Len(preds)]
Raised(e, c, S, calls, added) ==
  [ok |-> FALSE, err |-> e, cause |-> c, names |-> S,
   prediction |-> PyNone, confidence |-> PyNone,
   predictions |-> <<>>, confidences |-> NoList,
   raws |-> <<>>, calls |-> calls, added |-> added]

BackendCalls_retry(schema, X) == 2

\* MODEL.predict(X) on the lightgbm path, MODEL.predict(xgb.DMatrix(X)) on
\* the xgboost path.  xgb.DMatrix refuses an object column before the model
\* is reached; a Booster of the other library refuses the argument.
BackendCalls(schema, X) ==
  IF schema.model_type = "lightgbm" THEN 1
  ELSE IF \A i \in DOMAIN X : AllNumeric(X[i]) THEN 1 ELSE 0

BackendFails(schema, model, X) ==
  \/ \E i \in DOMAIN X : ~AllNumeric(X[i])
  \/ model.none
  \/ (schema.model_type = "lightgbm") # (model.kind = "lightgbm")

DistanceFromBoundary_raw(raw) == raw

\* abs(pred - 0.5) * 2
DistanceFromBoundary(raw) == Abs(raw - Half) * 2

\* prediction and confidence from the backend's output pred
predict_result(schema, pred) ==
  IF "task_type" \in schema.lacks
    THEN Raised("KeyError: 'task_type'", "", {}, 1, 0)
  ELSE IF schema.task_type = "classification"
    THEN Returned(PyInt(IntGtHalf(pred)), PyFloat(DistanceFromBoundary(pred)),
                  <<PyFloat(pred)>>, 1)
    ELSE Returned(py_float(pred), PyNone, <<PyFloat(pred)>>, 1)

\* predict once preprocess_features has returned or raised P
predict_aligned(schema, model, P) ==
  IF ~P.ok THEN Raised(P.err, P.cause, P.names, 0, 0)
  ELSE IF "model_type" \in schema.lacks
    THEN Raised("KeyError: 'model_type'", "", {}, 0, 0)
  ELSE IF BackendFails(schema, model, <<P.X>>)
    THEN Raised("backend error", "", {}, BackendCalls(schema, <<P.X>>), 0)
  ELSE predict_result(schema, BoosterRaw(model, P.X))

predict(loaded, schema, model, features) ==
  IF ~loaded THEN Raised("RuntimeError: Model not loaded", "", {}, 0, 0)
  ELSE predict_aligned(schema, model, preprocess_features(schema, features))

AlignAll_reversed(schema, features_list) ==
  [i \in DOMAIN features_list |->
     preprocess_features(schema, features_list[Len(features_list) + 1 - i])]

AlignAll_first(schema, features_list) ==
  [i \in DOMAIN features_list |-> preprocess_features(schema, features_list[1])]

\* [self.preprocess_features(features) for features in features_list]
AlignAll(schema, features_list) ==
  [i \in DOMAIN features_list |-> preprocess_features(schema, features_list[i])]

FirstFailing_never(A) == 0

\* index of the first record of the list whose alignment fails, 0 if none
FirstFailing(A) ==
  IF \A i \in DOMAIN A : A[i].ok
    THEN 0
    ELSE CHOOSE i \in DOMAIN A : ~A[i].ok /\ \A j \in 1..(i - 1) : A[j].ok

\* predictions and confidences from the backend's outputs for the frame
predict_batch_result(schema, predictions) ==
  IF "task_type" \in schema.lacks
    THEN Raised("KeyError: 'task_type'", "", {}, 1, 0)
  ELSE IF schema.task_type = "classification"
    THEN ReturnedBatch(
           [i \in DOMAIN predictions |-> PyInt(IntGtHalf(predictions[i]))],
           ListOf([i \in DOMAIN predictions |->
                     PyFloat(DistanceFromBoundary(predictions[i]))]),
           [i \in DOMAIN predictions |-> PyFloat(predictions[i])], 1)
    ELSE ReturnedBatch(
           [i \in DOMAIN predictions |-> py_float(predictions[i])],
           NoList,
           [i \in DOMAIN predictions |-> PyFloat(predictions[i])], 1)

\* predict_batch once the comprehension over the list has produced A, or
\* has raised at its record f
predict_batch_aligned(schema, model, A, f) ==
  IF f # 0 THEN Raised(A[f].err, A[f].cause, A[f].names, 0, 0)
  ELSE IF "model_type" \in schema.lacks
    THEN Raised("KeyError: 'model_type'", "", {}, 0, 0)
  ELSE
    LET X == [i \in DOMAIN A |-> A[i].X]
    IN  IF BackendFails(schema, model, X)
          THEN Raised("backend error", "", {}, BackendCalls(schema, X), 0)
          ELSE predict_batch_result(schema,
                                    [i \in DOMAIN X |-> BoosterRaw(model, X[i])])

predict_batch(loaded, schema, model, features_list) ==
  IF ~loaded THEN Raised("RuntimeError: Model not loaded", "", {}, 0, 0)
  ELSE predict_batch_aligned(schema, model, AlignAll(schema, features_list),
                             FirstFailing(AlignAll(schema, features_list)))

\* ------------------------------------- src/model-bot-backup: the package
\* model.pkl of the backup trainer: {'model', 'preprocessors', 'metadata'}.
\* The task is detected from the target: two classes, more classes, or a
\* regression target.
BkTaskKindOf(v) ==
  IF (v \div 2) % 4 = 0 THEN "binary"
  ELSE IF (v \div 2) % 4 = 1 THEN "multi3"
  ELSE IF (v \div 2) % 4 = 2 THEN "regression"
  ELSE "multi4"
BkTaskTypeOf(v) ==
  IF BkTaskKindOf(v) = "regression" THEN "regression" ELSE "classification"
BkFeatureOrderOf(v) == IF (v \div 8) % 2 = 0 THEN <<"a", "b">> ELSE <<"b", "a">>

\* StandardScaler fitted on the training frame: mean_ and scale_ per column
ScalerMean(col) == IF col = "a" THEN 1 ELSE 0
ScalerScale(col) == IF col = "a" THEN 2 ELSE 1

\* cells of a scaled row are in units of 1/CellUnit, which scale_ divides
CellUnit == ScalerScale("a")

NoPackage ==
  [none |-> TRUE,
   model |-> [none |-> TRUE, kind |-> "", task |-> "", ts |-> 0 - 1],
   preprocessors |-> [label_encoder |-> {}, classes_ |-> <<>>, scaler |-> FALSE],
   metadata |-> [algorithm |-> "", task_type |-> "", feature_names |-> <<>>,
                 required_features |-> {}]]

\* The backup trainer's preprocess_data / train / save_model.  The metadata the
\* trainer stores has no 'required_features' key, so the server's
\* .get("required_features", []) is the empty list.
Package(v) ==
  [none |-> FALSE,
   model |-> [none |-> FALSE, kind |-> ModelTypeOf(v), task |-> BkTaskKindOf(v),
              ts |-> v],
   preprocessors |-> [label_encoder |-> SeqRange(ObjectColumns),
                      classes_ |-> SortedUnique(TrainingCategories),
                      scaler |-> TRUE],
   metadata |-> [algorithm |-> ModelTypeOf(v), task_type |-> BkTaskTypeOf(v),
                 feature_names |-> BkFeatureOrderOf(v),
                 required_features |-> {}]]

\* LabelEncoder.fit_transform at training time
LabelEncoderCode(s) == CodeOf(SortedUnique(TrainingCategories), s)

\* --------------------------------- src/model-bot-backup: the backend
\* per-class probabilities of a multiclass model, each summing to 1.0
Multi3 ==
  << <<2, 2, 6>>, <<1, 3, 6>>, <<5, 5, 0>>, <<6, 3, 1>>, <<0, 5, 5>>, <<3, 6, 1>> >>
Multi4 ==
  << <<1, 1, 2, 6>>, <<4, 4, 1, 1>>, <<3, 3, 3, 1>>, <<1, 2, 3, 4>>,
     <<2, 4, 4, 0>>, <<4, 2, 2, 2>> >>

BkRowHash(X) == RowHash(X) + 4 * CellUnit

\* Booster.predict(X)[0] / predict_proba(X)[0]: a float for a binary or a
\* regression model, a row of class probabilities for a multiclass model
BkRaw(model, X) ==
  IF model.task = "binary"
    THEN PyFloat((4 + model.ts + 4 * BkRowHash(X)) % (Scale + 1))
  ELSE IF model.task = "regression"
    THEN PyFloat(model.ts + 3 * BkRowHash(X))
  ELSE IF model.task = "multi3"
    THEN PyArray(Multi3[((model.ts + BkRowHash(X)) % Len(Multi3)) + 1])
  ELSE PyArray(Multi4[((model.ts + BkRowHash(X)) % Len(Multi4)) + 1])

Max(S) == CHOOSE m \in S : \A k \in S : k <= m

\* np.argmax: the first index (0-based) holding the maximum
argmax(q) ==
  (CHOOSE i \in DOMAIN q :
     /\ q[i] = Max(SeqRange(q))
     /\ \A j \in 1..(i - 1) : q[j] # Max(SeqRange(q))) - 1

\* len(np.unique(prediction)): 1 for a scalar
NUnique(p) == IF p.kind = "ndarray" THEN Cardinality(SeqRange(p.vec)) ELSE 1

\* isinstance(prediction, (int, float)): true of np.float64, false of ndarray
IsScalar(p) == p.kind # "ndarray"

\* XGBClassifier.predict: the class of the largest probability; for a
\* binary model the probability of class 1 thresholded at 0.5
XGBClassifierPredict(model, X) ==
  IF model.task = "binary" THEN IntGtHalf(BkRaw(model, X).v)
  ELSE argmax(BkRaw(model, X).vec)

\* XGBClassifier.predict_proba(X)[0]
predict_proba(model, X) ==
  IF model.task = "binary"
    THEN <<Scale - BkRaw(model, X).v, BkRaw(model, X).v>>
    ELSE BkRaw(model, X).vec

\* ------------------------- src/model-bot-backup/serve.py: alignment
\* except Exception as e: raise ValueError(f"Feature preprocessing error: {e}")
FeaturePreprocessingError(r) ==
  [r EXCEPT !.err = "ValueError: Feature preprocessing error", !.cause = r.err]

\* encoder.transform(df[col].astype(str)), and on ValueError (a label that
\* is not in classes_) encoder.transform([encoder.classes_[0]])[0]
LabelEncoderTransform(classes, v) ==
  IF astype_str(v) \in SeqRange(classes)
    THEN CodeOf(classes, astype_str(v))
    ELSE CodeOf(classes, classes[1])

\* scaler.transform: (x - mean_) / scale_, in units of 1/CellUnit
StandardScalerTransform(col, x) == ((x - ScalerMean(col)) * CellUnit) \div ScalerScale(col)

\* The names metadata, cast and Sequence of the statement that computes
\* missing_features are bound nowhere in the file; bound tells whether the
\* namespace the server runs in resolves them (metadata to the server's
\* metadata, cast to typing.cast).  When it does not, the statement raises
\* NameError.
bk_preprocess_features(bound, preprocessors, metadata, features) ==
  IF ~bound
    THEN FeaturePreprocessingError(Raise("NameError: name is not defined", {}))
  ELSE
    LET missing_features == metadata.required_features
    IN  IF missing_features # {}
          THEN FeaturePreprocessingError(
                 Raise("ValueError: Missing features", missing_features))
        ELSE IF SeqRange(metadata.feature_names) \ DOMAIN features # {}
          \* df[self.metadata['feature_names']]: KeyError naming the labels
          \* that are not columns of the frame
          THEN FeaturePreprocessingError(
                 Raise("KeyError: not in index",
                       SeqRange(metadata.feature_names) \ DOMAIN features))
        ELSE
          LET cols == metadata.feature_names
              df == GetColumns(DataFrame(KeyOrder(features), features), cols)
              enc == [i \in DOMAIN df |->
                       IF cols[i] \in preprocessors.label_encoder
                         THEN Num(LabelEncoderTransform(preprocessors.classes_, df[i]))
                         ELSE df[i]]
          IN  IF ~preprocessors.scaler THEN Ok(enc)
              ELSE IF ~AllNumeric(enc)
                THEN FeaturePreprocessingError(
                       Raise("ValueError: could not convert string to float", {}))
              ELSE Ok([i \in DOMAIN enc |->
                         Num(StandardScalerTransform(cols[i], enc[i].n))])

\* ----------------------- src/model-bot-backup/serve.py: predict_single
\* except Exception as e: raise RuntimeError(f"Prediction error: {e}")
PredictionError(cause, S, calls) ==
  Raised("RuntimeError: Prediction error", cause, S, calls, 0)

\* the lightgbm branch, from the backend's output prediction
lightgbm_result(metadata, prediction) ==
  IF metadata.task_type = "classification"
    THEN
      IF NUnique(prediction) = 2 \/ IsScalar(prediction)
        THEN
          IF IsScalar(prediction)
            THEN
              IF prediction.v <= Scale
                THEN Returned(PyInt(IntGtHalf(prediction.v)),
                              PyFloat(prediction.v), <<prediction>>, 1)
                ELSE Returned(PyInt(prediction.v \div Scale), PyNone,
                              <<prediction>>, 1)
            ELSE Returned(prediction, PyNone, <<prediction>>, 1)
        ELSE Returned(PyInt(argmax(prediction.vec)),
                      PyList(prediction.vec), <<prediction>>, 1)
    ELSE Returned(py_float(prediction.v), PyNone, <<prediction>>, 1)

\* the xgboost branch, from the outputs of predict and predict_proba
xgboost_result(metadata, prediction, prediction_proba, raw) ==
  IF metadata.task_type = "classification"
    THEN
      IF Len(prediction_proba) = 2
        THEN Returned(PyInt(prediction), PyFloat(prediction_proba[2]), <<raw>>, 2)
        ELSE Returned(PyInt(prediction), PyList(prediction_proba), <<raw>>, 2)
    ELSE Returned(py_float(raw.v), PyNone, <<raw>>, 1)

\* predict_single once preprocess_features has returned or raised P
predict_single_aligned(model, metadata, P) ==
  IF ~P.ok THEN PredictionError(P.err, P.names, 0)
  ELSE IF metadata.algorithm = "lightgbm"
    THEN lightgbm_result(metadata, BkRaw(model, P.X))
    ELSE xgboost_result(metadata, XGBClassifierPredict(model, P.X),
                        predict_proba(model, P.X), BkRaw(model, P.X))

predict_single(bound, model, preprocessors, metadata, features) ==
  IF model.none THEN Raised("RuntimeError: Model not loaded", "", {}, 0, 0)
  ELSE predict_single_aligned(
         model, metadata,
         bk_preprocess_features(bound, preprocessors, metadata, features))

\* ------------------------ src/model-bot-backup/serve.py: predict_batch
\* the results of predict_single for the instances, in order
BkResults(bound, model, preprocessors, metadata, instances) ==
  [i \in DOMAIN instances |->
     predict_single(bound, model, preprocessors, metadata, instances[i])]

NotNone_keep(q) == q

\* the entries of q that are not None, in order
RECURSIVE NotNone(_)
NotNone(q) ==
  IF q = <<>> THEN <<>>
  ELSE IF Head(q) = PyNone THEN NotNone(Tail(q))
  ELSE <<Head(q)>> \o NotNone(Tail(q))

\* predict_batch once the loop over the instances has produced R, or has
\* raised at the first instance whose predict_single raises
predict_batch_looped(R) ==
  IF \E i \in DOMAIN R : ~R[i].ok
    THEN
      LET f == CHOOSE i \in DOMAIN R : ~R[i].ok /\ \A j \in 1..(i - 1) : R[j].ok
      IN  Raised("RuntimeError: Batch prediction error", R[f].err, R[f].names,
                 SumSeq([j \in 1..f |-> R[j].calls]), f - 1)
    ELSE
      LET probabilities == NotNone([i \in DOMAIN R |-> R[i].confidence])
      IN  ReturnedBatch([i \in DOMAIN R |-> R[i].prediction],
                        IF probabilities = <<>> THEN NoList
                                                ELSE ListOf(probabilities),
                        [i \in DOMAIN R |-> R[i].raws[1]],
                        SumSeq([i \in DOMAIN R |-> R[i].calls]))

bk_predict_batch(bound, model, preprocessors, metadata, instances) ==
  IF model.none THEN Raised("RuntimeError: Model not loaded", "", {}, 0, 0)
  ELSE predict_batch_looped(
         BkResults(bound, model, preprocessors, metadata, instances))

\* ================================================================ state
VARIABLES
  impl,                 \* which serving program runs: "model" or "backup"
  phase,                \* "init" before the startup event, "serving", "dead"
  bound,                \* backup: the unbound names of preprocess_features resolve
  MODEL,                \* src/model/serve.py globals
  SCHEMA,
  MODEL_LOADED,
  self_model,           \* model_server.model
  self_schema,          \* model_server.schema
  server_model,         \* backup: server.model
  server_preprocessors, \* backup: server.preprocessors
  server_metadata,      \* backup: server.metadata
  prediction_count,     \* prediction_count of the running server object
  call,                 \* the request being answered, NoCall between requests
  tool                  \* approve_intent.py: the run of main()

vars ==
  <<impl, phase, bound, MODEL, SCHEMA, MODEL_LOADED, self_model, self_schema,
    server_model, server_preprocessors, server_metadata, prediction_count, call,
    tool>>

\* the body of a /health response
NoHealth == [status |-> "", model_loaded |-> FALSE]
HealthResponse(loaded) ==
  [status |-> IF loaded THEN "healthy" ELSE "unhealthy", model_loaded |-> loaded]

\* what /health and /model/info tell about the schema in use
NoInfo ==
  [model_type |-> "", task_type |-> "", feature_names |-> <<>>,
   training_timestamp |-> 0 - 1]
\* model_type=SCHEMA.get('model_type') if SCHEMA else None
HealthInfo(schema) ==
  [NoInfo EXCEPT !.model_type = schema.model_type]
\* the dict model_info returns
ModelInfo(schema) ==
  [model_type |-> schema.model_type, task_type |-> schema.task_type,
   feature_names |-> schema.feature_names,
   training_timestamp |-> schema.training_timestamp]

\* batch_size is the count a batch response reports (batch_size,
\* processed_count), 0 in every other response
NoCall == [op |-> "none", input |-> <<>>, status |-> 0,
           res |-> Raised("", "", {}, 0, 0), batch_size |-> 0,
           health |-> NoHealth, info |-> NoInfo]

\* the outcomes of load_model's reads of the model directory
\* (a key of RequiredKeys: schema.json parses but does not have that key)
LoadOutcomes ==
  {"no_model_file", "no_schema_file", "bad_schema", "bad_model", "ok"}
    \cup RequiredKeys

\* ------------------------------- src/tools/nova-ops/approve_intent.py
\* sys.argv of a run: the script name, then what the operator typed
IntentIds == {"intent-1", "intent-2"}
Argvs ==
  {<<"approve_intent.py">>}
    \cup {<<"approve_intent.py", i>> : i \in IntentIds}
    \cup {<<"approve_intent.py", i, "extra">> : i \in IntentIds}

\* msg = {"intent_id": intent_id, "decision": "approve", "timestamp": ...}
ApprovalMessage(intent_id) == [intent_id |-> intent_id, decision |-> "approve"]

\* pc is the statement main() runs next; stdout the lines printed; published
\* the messages handed to publisher.publish; confirmed whether
\* future.result has returned; exit the process's exit status, -1 while it runs
NoTool ==
  [pc |-> "off", argv |-> <<>>, stdout |-> <<>>, published |-> <<>>,
   confirmed |-> FALSE, exit |-> 0 - 1]

InitTool ==
  /\ impl = "approve_intent"
  /\ phase = "tool"
  /\ bound = TRUE
  /\ MODEL = NoModel
  /\ SCHEMA = NoSchema
  /\ MODEL_LOADED = FALSE
  /\ self_model = NoModel
  /\ self_schema = NoSchema
  /\ server_model = NoPackage.model
  /\ server_preprocessors = NoPackage.preprocessors
  /\ server_metadata = NoPackage.metadata
  /\ prediction_count = 0
  /\ call = NoCall
  /\ \E argv \in Argvs : tool = [NoTool EXCEPT !.pc = "main", !.argv = argv]

\* module level of src/model/serve.py: MODEL = None, SCHEMA = None,
\* MODEL_LOADED = False, model_server = NovaModelServer()
InitModel ==
  /\ impl = "model"
  /\ phase = "init"
  /\ bound = TRUE
  /\ MODEL = NoModel
  /\ SCHEMA = NoSchema
  /\ MODEL_LOADED = FALSE
  /\ self_model = NoModel
  /\ self_schema = NoSchema
  /\ server_model = NoPackage.model
  /\ server_preprocessors = NoPackage.preprocessors
  /\ server_metadata = NoPackage.metadata
  /\ prediction_count = 0
  /\ call = NoCall
  /\ tool = NoTool

\* module level of src/model-bot-backup/serve.py: server = NovaModelServer(),
\* whose __init__ calls load_model; a failed load raises out of the import
InitBackup ==
  /\ impl = "backup"
  /\ bound \in BOOLEAN
  /\ MODEL = NoModel
  /\ SCHEMA = NoSchema
  /\ MODEL_LOADED = FALSE
  /\ self_model = NoModel
  /\ self_schema = NoSchema
  /\ \E v \in ArtifactIds, loaded \in BOOLEAN :
       LET pkg == IF loaded THEN Package(v) ELSE NoPackage
       IN  /\ phase = IF loaded THEN "serving" ELSE "dead"
           /\ server_model = pkg.model
           /\ server_preprocessors = pkg.preprocessors
           /\ server_metadata = pkg.metadata
  /\ prediction_count = 0
  /\ call = NoCall
  /\ tool = NoTool

Init == InitModel \/ InitBackup \/ InitTool

load_model_schema_only(v, outcome) ==
  IF outcome = "ok"
    THEN /\ self_schema' = TrainedSchema(v)
         /\ SCHEMA' = TrainedSchema(v)
         /\ MODEL_LOADED' = TRUE
         /\ UNCHANGED <<MODEL, self_model>>
    ELSE UNCHANGED <<MODEL, SCHEMA, MODEL_LOADED, self_model, self_schema>>

\* ------------------------------------------ src/model/serve.py: load_model
\* The assignments load_model makes before it returns or raises.
load_model(v, outcome) ==
  IF outcome \in {"no_model_file", "no_schema_file", "bad_schema"}
    THEN UNCHANGED <<MODEL, SCHEMA, MODEL_LOADED, self_model, self_schema>>
  ELSE IF outcome = "bad_model"
    THEN /\ self_schema' = TrainedSchema(v)
         /\ SCHEMA' = TrainedSchema(v)
         /\ UNCHANGED <<MODEL, MODEL_LOADED, self_model>>
  ELSE IF outcome \in RequiredKeys
    \* the KeyError comes from the logger.info calls that follow
    \* MODEL_LOADED = True
    THEN /\ self_schema' = SchemaLacking(v, outcome)
         /\ SCHEMA' = SchemaLacking(v, outcome)
         /\ self_model' = TrainedModel(v)
         /\ MODEL' = TrainedModel(v)
         /\ MODEL_LOADED' = TRUE
  ELSE /\ self_schema' = TrainedSchema(v)
       /\ SCHEMA' = TrainedSchema(v)
       /\ self_model' = TrainedModel(v)
       /\ MODEL' = TrainedModel(v)
       /\ MODEL_LOADED' = TRUE

Untouched ==
  UNCHANGED <<impl, bound, server_model, server_preprocessors, server_metadata,
              tool>>

startup_event ==
  /\ impl = "model" /\ phase = "init"
  /\ \E v \in ArtifactIds, outcome \in LoadOutcomes : load_model(v, outcome)
  /\ phase' = "serving"
  /\ UNCHANGED <<prediction_count, call>>
  /\ Untouched

reload_model ==
  /\ impl = "model" /\ phase = "serving" /\ call = NoCall
  /\ \E v \in ArtifactIds, outcome \in LoadOutcomes :
       /\ load_model(v, outcome)
       /\ call' = [op |-> "reload", input |-> <<>>,
                   status |-> IF outcome = "ok" THEN 200 ELSE 500,
                   res |-> Raised("", "", {}, 0, 0), batch_size |-> 0,
                   health |-> NoHealth, info |-> NoInfo]
  /\ UNCHANGED <<phase, prediction_count>>
  /\ Untouched

\* ------------------------------------ src/model/serve.py: /health
health_check ==
  /\ impl = "model" /\ phase = "serving" /\ call = NoCall
  /\ call' = [op |-> "health", input |-> <<>>, status |-> 200,
              res |-> Raised("", "", {}, 0, 0), batch_size |-> 0,
              health |-> HealthResponse(MODEL_LOADED),
              info |-> HealthInfo(SCHEMA)]
  /\ UNCHANGED <<phase, MODEL, SCHEMA, MODEL_LOADED, self_model, self_schema,
                 prediction_count>>
  /\ Untouched

HTTPStatus_ok(res, code) == 200

\* a returned result is the 200 response; a raised exception is caught by
\* the handler's except clause and becomes HTTPException(status_code=code)
HTTPStatus(res, code) == IF res.ok THEN 200 ELSE code

\* -------------------------------- src/model/serve.py: request validators
\* PredictionRequest.validate_features
PredictionRequest_validate(v) ==
  IF DOMAIN v = {} THEN Raise("ValueError: Features cannot be empty", {})
  ELSE Ok(v)

\* BatchPredictionRequest.validate_features
BatchPredictionRequest_validate(v) ==
  IF v = <<>> THEN Raise("ValueError: Features list cannot be empty", {})
  ELSE IF Len(v) > BatchLimit
    THEN Raise("ValueError: Batch size cannot exceed 1000 samples", {})
  ELSE Ok(v)

\* A request body its validator refuses is answered 422 by the framework;
\* the handler is not entered.
PredictionRequest_invalid ==
  /\ impl = "model" /\ phase = "serving" /\ call = NoCall
  /\ \E features \in Records :
       \E checked \in {PredictionRequest_validate(features)} :
         /\ ~checked.ok
         /\ call' = [op |-> "PredictionRequest", input |-> <<features>>,
                     status |-> 422,
                     res |-> Raised(checked.err, "", {}, 0, 0),
                     batch_size |-> 0, health |-> NoHealth, info |-> NoInfo]
  /\ UNCHANGED <<phase, MODEL, SCHEMA, MODEL_LOADED, self_model, self_schema,
                 prediction_count>>
  /\ Untouched

BatchPredictionRequest_invalid ==
  /\ impl = "model" /\ phase = "serving" /\ call = NoCall
  /\ \E features_list \in BatchRequests :
       \E checked \in {BatchPredictionRequest_validate(features_list)} :
         /\ ~checked.ok
         /\ call' = [op |-> "BatchPredictionRequest", input |-> features_list,
                     status |-> 422,
                     res |-> Raised(checked.err, "", {}, 0, 0),
                     batch_size |-> 0, health |-> NoHealth, info |-> NoInfo]
  /\ UNCHANGED <<phase, MODEL, SCHEMA, MODEL_LOADED, self_model, self_schema,
                 prediction_count>>
  /\ Untouched

\* ------------------------------------ src/model/serve.py: /model/info
ModelInfoStatus_ok(loaded, schema) == 200

\* 503 while MODEL_LOADED is false; a key the schema lacks raises KeyError
\* out of the handler, which has no try: the framework answers 500
ModelInfoStatus(loaded, schema) ==
  IF ~loaded THEN 503
  ELSE IF schema.lacks # {} THEN 500
  ELSE 200

model_info ==
  /\ impl = "model" /\ phase = "serving" /\ call = NoCall
  /\ \E status \in {ModelInfoStatus(MODEL_LOADED, SCHEMA)} :
       call' = [op |-> "model_info", input |-> <<>>, status |-> status,
                res |-> Raised("", "", {}, 0, 0), batch_size |-> 0,
                health |-> NoHealth,
                info |-> IF status = 200 THEN ModelInfo(SCHEMA) ELSE NoInfo]
  /\ UNCHANGED <<phase, MODEL, SCHEMA, MODEL_LOADED, self_model, self_schema,
                 prediction_count>>
  /\ Untouched

\* ------------------------------------ src/model/serve.py: /score handlers
\* except Exception as e: raise HTTPException(status_code=400, ...)
score ==
  /\ impl = "model" /\ phase = "serving" /\ call = NoCall
  /\ \E features \in Records :
       \E res \in {predict(MODEL_LOADED, SCHEMA, MODEL, features)} :
         /\ PredictionRequest_validate(features).ok
         /\ prediction_count + res.added <= MaxCount
         /\ prediction_count' = prediction_count + res.added
         /\ call' = [op |-> "score", input |-> <<features>>,
                     status |-> HTTPStatus(res, 400), res |-> res,
                     batch_size |-> 0, health |-> NoHealth, info |-> NoInfo]
  /\ UNCHANGED <<phase, MODEL, SCHEMA, MODEL_LOADED, self_model, self_schema>>
  /\ Untouched

score_batch ==
  /\ impl = "model" /\ phase = "serving" /\ call = NoCall
  /\ \E features_list \in BatchRequests :
       \E res \in {predict_batch(MODEL_LOADED, SCHEMA, MODEL, features_list)} :
         /\ BatchPredictionRequest_validate(features_list).ok
         /\ prediction_count + res.added <= MaxCount
         /\ prediction_count' = prediction_count + res.added
         /\ call' = [op |-> "score_batch", input |-> features_list,
                     status |-> HTTPStatus(res, 400), res |-> res,
                     batch_size |-> IF res.ok THEN Len(features_list) ELSE 0,
                     health |-> NoHealth, info |-> NoInfo]
  /\ UNCHANGED <<phase, MODEL, SCHEMA, MODEL_LOADED, self_model, self_schema>>
  /\ Untouched

\* ------------------------- src/model-bot-backup/serve.py: /score, /batch
\* the ValueErrors raised in the handlers' own try blocks
HandlerValueErrors ==
  {"ValueError: No instances provided for batch prediction",
   "ValueError: Batch size too large (max 1000 instances)",
   "ValueError: CSV too large (max 1000 rows)",
   "ValueError: File must be a CSV",
   "ValueError: Length of values does not match length of index"}

\* except ValueError: 400; except Exception: 500.  predict_single and
\* predict_batch raise RuntimeError only.
ExceptStatus(res) == IF res.err \in HandlerValueErrors THEN 400 ELSE 500

HasArray(res) ==
  \/ res.prediction.kind = "ndarray"
  \/ \E i \in DOMAIN res.predictions : res.predictions[i].kind = "ndarray"

\* The response model is built inside the try.  Whether it takes an ndarray
\* where it declares List[float] depends on the pydantic release; when it
\* does not, the ValidationError is a ValueError and the answer is 400.
ResponseStatuses(res, status) ==
  IF res.ok /\ HasArray(res) THEN {status, 400} ELSE {status}

\* score_batch, lines 326-333: the checks before server.predict_batch
score_batch_checked(instances, result) ==
  IF instances = <<>>
    THEN Raised("ValueError: No instances provided for batch prediction",
                "", {}, 0, 0)
  ELSE IF Len(instances) > BatchLimit
    THEN Raised("ValueError: Batch size too large (max 1000 instances)",
                "", {}, 0, 0)
  ELSE result

\* The rows of an uploaded CSV as df.to_dict('records') gives them: every
\* row has the header's keys, and a column is numeric or text throughout.
CsvRows ==
  {q \in Batches :
     \A i, j \in DOMAIN q :
       /\ DOMAIN q[i] = DOMAIN q[j]
       /\ \A k \in DOMAIN q[i] : q[i][k].num = q[j][k].num}
    \cup {<<>>, AtLimit, OverLimit}

\* score_csv, lines 346-370.  Line 347 does not parse; it is read as the
\* check it names, that the file's name ends with .csv.  Assigning the
\* probabilities as a column fails when there are fewer of them than rows.
score_csv_checked(is_csv, instances, result) ==
  IF ~is_csv THEN Raised("ValueError: File must be a CSV", "", {}, 0, 0)
  ELSE IF Len(instances) > BatchLimit
    THEN Raised("ValueError: CSV too large (max 1000 rows)", "", {}, 0, 0)
  ELSE IF ~result.ok THEN result
  ELSE IF /\ ~result.confidences.none
          /\ Len(result.confidences.items) # Len(instances)
    THEN Raised("ValueError: Length of values does not match length of index",
                "", {}, result.calls, result.added)
  ELSE result

score_single ==
  /\ impl = "backup" /\ phase = "serving" /\ call = NoCall
  /\ \E features \in Records :
       \E res \in {predict_single(bound, server_model, server_preprocessors,
                               server_metadata, features)} :
         /\ prediction_count + res.added <= MaxCount
         /\ prediction_count' = prediction_count + res.added
         /\ \E status \in ResponseStatuses(res, HTTPStatus(res, ExceptStatus(res))) :
              call' = [op |-> "score_single", input |-> <<features>>,
                       status |-> status, res |-> res,
                       batch_size |-> 0, health |-> NoHealth, info |-> NoInfo]
  /\ UNCHANGED <<impl, phase, bound, MODEL, SCHEMA, MODEL_LOADED, self_model,
                 self_schema, server_model, server_preprocessors,
                 server_metadata, tool>>

bk_score_batch ==
  /\ impl = "backup" /\ phase = "serving" /\ call = NoCall
  /\ \E instances \in BatchRequests :
       \E res \in {score_batch_checked(instances,
                      bk_predict_batch(bound, server_model, server_preprocessors,
                                       server_metadata, instances))} :
         /\ prediction_count + res.added <= MaxCount
         /\ prediction_count' = prediction_count + res.added
         /\ \E status \in ResponseStatuses(res, HTTPStatus(res, ExceptStatus(res))) :
              call' = [op |-> "bk_score_batch", input |-> instances,
                       status |-> status, res |-> res,
                       batch_size |-> IF res.ok THEN Len(res.predictions) ELSE 0,
                       health |-> NoHealth, info |-> NoInfo]
  /\ UNCHANGED <<impl, phase, bound, MODEL, SCHEMA, MODEL_LOADED, self_model,
                 self_schema, server_model, server_preprocessors,
                 server_metadata, tool>>

\* /batch/csv.  The answer is a plain dict: an ndarray in it is refused
\* when the column is assigned (400) or when the answer is encoded, after
\* the handler has returned (500), or it is taken.
score_csv ==
  /\ impl = "backup" /\ phase = "serving" /\ call = NoCall
  /\ \E is_csv \in BOOLEAN, instances \in CsvRows :
       \E res \in {score_csv_checked(is_csv, instances,
                      bk_predict_batch(bound, server_model, server_preprocessors,
                                       server_metadata, instances))} :
         /\ ~is_csv => instances = <<>>
         /\ prediction_count + res.added <= MaxCount
         /\ prediction_count' = prediction_count + res.added
         /\ \E status \in ResponseStatuses(res, HTTPStatus(res, ExceptStatus(res)))
                            \cup (IF res.ok /\ HasArray(res) THEN {500} ELSE {}) :
              call' = [op |-> "score_csv", input |-> instances,
                       status |-> status, res |-> res,
                       batch_size |-> IF res.ok THEN Len(res.predictions) ELSE 0,
                       health |-> NoHealth, info |-> NoInfo]
  /\ UNCHANGED <<impl, phase, bound, MODEL, SCHEMA, MODEL_LOADED, self_model,
                 self_schema, server_model, server_preprocessors,
                 server_metadata, tool>>

\* server.get_health_status(): 'healthy' if self.model is not None
bk_health_check ==
  /\ impl = "backup" /\ phase = "serving" /\ call = NoCall
  /\ call' = [op |-> "health", input |-> <<>>, status |-> 200,
              res |-> Raised("", "", {}, 0, 0), batch_size |-> 0,
              health |-> HealthResponse(~server_model.none), info |-> NoInfo]
  /\ UNCHANGED <<impl, phase, bound, MODEL, SCHEMA, MODEL_LOADED, self_model,
                 self_schema, server_model, server_preprocessors,
                 server_metadata, prediction_count, tool>>

\* ------------------------------- src/tools/nova-ops/approve_intent.py
ServerUntouched ==
  UNCHANGED <<impl, phase, bound, MODEL, SCHEMA, MODEL_LOADED, self_model,
              self_schema, server_model, server_preprocessors,
              server_metadata, prediction_count, call>>

\* lines 8-11: if len(sys.argv) < 2: print usage; sys.exit(2)
main_argv ==
  /\ impl = "approve_intent" /\ tool.pc = "main"
  /\ tool' = IF Len(tool.argv) < 2
               THEN [tool EXCEPT !.pc = "exited", !.exit = 2,
                                 !.stdout = Append(@, "Usage")]
               ELSE [tool EXCEPT !.pc = "publish"]
  /\ ServerUntouched

\* lines 12-16: the client is built and publish hands it the message; the
\* constructor or publish may raise (no credentials, no such topic path),
\* which ends the process with a traceback and status 1
main_publish ==
  /\ impl = "approve_intent" /\ tool.pc = "publish"
  /\ \E raised \in BOOLEAN :
       tool' = IF raised
                 THEN [tool EXCEPT !.pc = "exited", !.exit = 1]
                 ELSE [tool EXCEPT !.pc = "print",
                         !.published = Append(@, ApprovalMessage(tool.argv[2]))]
  /\ ServerUntouched

\* line 17: print("Published:", msg)
main_print ==
  /\ impl = "approve_intent" /\ tool.pc = "print"
  /\ tool' = [tool EXCEPT !.pc = "result", !.stdout = Append(@, "Published")]
  /\ ServerUntouched

\* line 18: future.result(timeout=20) returns the message id, or raises the
\* publish error or TimeoutError; main returns and the process exits 0
main_result ==
  /\ impl = "approve_intent" /\ tool.pc = "result"
  /\ \E outcome \in {"acknowledged", "error", "timeout"} :
       tool' = IF outcome = "acknowledged"
                 THEN [tool EXCEPT !.pc = "exited", !.exit = 0,
                                   !.confirmed = TRUE]
                 ELSE [tool EXCEPT !.pc = "exited", !.exit = 1]
  /\ ServerUntouched

\* the response leaves the handler
respond ==
  /\ call # NoCall
  /\ call' = NoCall
  /\ UNCHANGED <<impl, phase, bound, MODEL, SCHEMA, MODEL_LOADED, self_model,
                 self_schema, server_model, server_preprocessors,
                 server_metadata, prediction_count, tool>>

Next ==
  \/ startup_event
  \/ reload_model
  \/ health_check
  \/ model_info
  \/ PredictionRequest_invalid
  \/ BatchPredictionRequest_invalid
  \/ score
  \/ score_batch
  \/ score_single
  \/ bk_score_batch
  \/ score_csv
  \/ bk_health_check
  \/ respond
  \/ main_argv
  \/ main_publish
  \/ main_print
  \/ main_result

Spec == Init /\ [][Next]_vars

\* ============================================================== claims
\* what the running program's alignment and single prediction give for a
\* record in the current state
Loaded == IF impl = "model" THEN MODEL_LOADED ELSE ~server_model.none
FeatureNamesNow ==
  IF impl = "model" THEN SCHEMA.feature_names ELSE server_metadata.feature_names
AlignNow(r) ==
  IF impl = "model"
    THEN preprocess_features(SCHEMA, r)
    ELSE bk_preprocess_features(bound, server_preprocessors, server_metadata, r)
SingleNow(r) ==
  IF impl = "model"
    THEN predict(MODEL_LOADED, SCHEMA, MODEL, r)
    ELSE predict_single(bound, server_model, server_preprocessors,
                        server_metadata, r)
IsSingle == call.op \in {"score", "score_single"}
\* a batch request that reached predict_batch
IsBatch ==
  /\ call.op \in {"score_batch", "bk_score_batch"}
  /\ Len(call.input) \in 1..BatchLimit
MissingOf(r) == SeqRange(FeatureNamesNow) \ DOMAIN r

\* C1: a record that omits a schema feature is rejected without a backend
\* call, and the error names exactly the schema features the record omits.
C1_MissingFeaturesNamed ==
  (IsSingle /\ Loaded /\ MissingOf(call.input[1]) # {}) =>
    /\ ~call.res.ok
    /\ call.res.calls = 0
    /\ call.res.names = MissingOf(call.input[1])

\* C2 (as claimed): in a batch where some records fail and others do not,
\* every record that does not fail still gets its prediction.
FailsAlone(r) == ~SingleNow(r).ok
MixedBatch(q) ==
  /\ \E i \in DOMAIN q : FailsAlone(q[i])
  /\ \E i \in DOMAIN q : ~FailsAlone(q[i])
C3_ReloadAtomic ==
  MODEL_LOADED => SCHEMA.training_timestamp = MODEL.ts

\* C4: an unseen categorical value is aligned to the code of the first
\* training class and the request is answered with a prediction.
CategoricalNow ==
  IF impl = "model" THEN SeqRange(SCHEMA.categorical_columns)
                    ELSE server_preprocessors.label_encoder
SameLoad == impl = "model" => SCHEMA.training_timestamp = MODEL.ts
\* the cell a training code becomes in the aligned row
CellOfCode(col, code) ==
  IF impl = "model" THEN Num(code) ELSE Num(StandardScalerTransform(col, code))
FirstClass == SortedUnique(TrainingCategories)[1]
WellFormed(r) ==
  /\ MissingOf(r) = {}
  /\ \A c \in SeqRange(FeatureNamesNow) \ CategoricalNow : r[c].num
C4_UnseenCategoryFallback ==
  (/\ IsSingle /\ Loaded /\ SameLoad
   /\ WellFormed(call.input[1])
   /\ \E c \in CategoricalNow : astype_str(call.input[1][c]) \notin TrainingCategories)
  =>
    /\ call.res.ok
    /\ AlignNow(call.input[1]).ok
    /\ \A i \in DOMAIN FeatureNamesNow :
         (/\ FeatureNamesNow[i] \in CategoricalNow
          /\ astype_str(call.input[1][FeatureNamesNow[i]]) \notin TrainingCategories)
         => AlignNow(call.input[1]).X[i]
              = CellOfCode(FeatureNamesNow[i], TrainerCode(FirstClass))

\* C5: a categorical value seen in training is aligned to its training code.
C5_InferenceCodeIsTrainingCode ==
  (IsSingle /\ Loaded /\ WellFormed(call.input[1]) /\ AlignNow(call.input[1]).ok)
  =>
    \A i \in DOMAIN FeatureNamesNow :
      (/\ FeatureNamesNow[i] \in CategoricalNow
       /\ astype_str(call.input[1][FeatureNamesNow[i]]) \in TrainingCategories)
      => AlignNow(call.input[1]).X[i]
           = CellOfCode(FeatureNamesNow[i],
               IF impl = "model"
                 THEN TrainerCode(astype_str(call.input[1][FeatureNamesNow[i]]))
                 ELSE LabelEncoderCode(astype_str(call.input[1][FeatureNamesNow[i]])))

\* C6: for binary classification the label is 1 exactly when the raw output
\* is above 0.5, and 0 at exactly 0.5 (single and batch, both backends of
\* src/model/serve.py; the lightgbm path of the backup server).
BinaryNow ==
  IF impl = "model"
    THEN SCHEMA.task_type = "classification"
    ELSE server_model.task = "binary" /\ server_metadata.algorithm = "lightgbm"
LabelOf(raw) == PyInt(IF raw.v > Half THEN 1 ELSE 0)
C6_BinaryLabelThreshold ==
  (call.res.ok /\ BinaryNow) =>
    /\ IsSingle => call.res.prediction = LabelOf(call.res.raws[1])
    /\ IsBatch => \A i \in DOMAIN call.input :
                    call.res.predictions[i] = LabelOf(call.res.raws[i])
C6_Witness ==
  /\ call.op = "score" /\ call.res.ok /\ BinaryNow
  /\ call.res.raws[1].v = Half
  /\ call.res.prediction = PyInt(0)

\* C7: for a multiclass model predict_single of the backup server returns the
\* lowest index of the largest probability and the probabilities unchanged.
MulticlassNow == impl = "backup" /\ server_model.task \in {"multi3", "multi4"}
LowestMaxIndex(q) ==
  (CHOOSE i \in DOMAIN q :
     /\ \A j \in DOMAIN q : q[j] <= q[i]
     /\ \A j \in DOMAIN q : j < i => q[j] < q[i]) - 1
BinaryAnyBackend ==
  IF impl = "model" THEN SCHEMA.task_type = "classification"
                    ELSE server_model.task = "binary"
RegressionNow ==
  IF impl = "model" THEN SCHEMA.task_type = "regression"
                    ELSE server_metadata.task_type = "regression"
C9_RegressionPassThrough ==
  (call.res.ok /\ RegressionNow) =>
    /\ IsSingle => /\ call.res.prediction = PyFloat(call.res.raws[1].v)
                   /\ call.res.confidence = PyNone
    /\ IsBatch => /\ \A i \in DOMAIN call.input :
                       call.res.predictions[i] = PyFloat(call.res.raws[i].v)
                  /\ call.res.confidences.none
C9_Witness ==
  /\ IsBatch /\ call.res.ok /\ RegressionNow
  /\ Len(call.input) = 2
  /\ call.res.raws[1] # call.res.raws[2]
  /\ call.res.confidences.none

\* C10: a batch of one record returns the prediction and the probability or
\* confidence that the single-record call returns for that record.
C10_BatchOfOneIsSingle ==
  (IsBatch /\ Len(call.input) = 1 /\ SingleNow(call.input[1]).ok) =>
    /\ call.res.ok
    /\ call.res.predictions = <<SingleNow(call.input[1]).prediction>>
    /\ IF SingleNow(call.input[1]).confidence = PyNone
         THEN call.res.confidences.none
         ELSE call.res.confidences =
                ListOf(<<SingleNow(call.input[1]).confidence>>)
C10_Witness ==
  /\ IsBatch /\ Len(call.input) = 1 /\ call.res.ok
  /\ SingleNow(call.input[1]).ok
  /\ ~call.res.confidences.none

\* what the running program's batch prediction gives for a list of records
BatchNow(q) ==
  IF impl = "model"
    THEN predict_batch(MODEL_LOADED, SCHEMA, MODEL, q)
    ELSE bk_predict_batch(bound, server_model, server_preprocessors,
                          server_metadata, q)
IsScoring == IsSingle \/ IsBatch
ScoringOps == {"score", "score_batch", "score_single", "bk_score_batch"}

\* C11: a successful batch of n records returns n predictions, the i-th
\* being the prediction of the i-th record; permuting the records permutes
\* the predictions in the same way.
C11_BatchPreservesOrder ==
  (IsBatch /\ call.res.ok) =>
    /\ Len(call.res.predictions) = Len(call.input)
    /\ \A i \in DOMAIN call.input :
         call.res.predictions[i] = SingleNow(call.input[i]).prediction
    /\ \A p \in Permutations(DOMAIN call.input) :
         BatchNow([i \in DOMAIN call.input |-> call.input[p[i]]]).predictions
           = [i \in DOMAIN call.input |-> call.res.predictions[p[i]]]
C11_Witness ==
  /\ IsBatch /\ call.res.ok /\ Len(call.input) = 2
  /\ call.res.predictions[1] # call.res.predictions[2]

CellNow(col, v) ==
  IF impl = "model"
    THEN IF col \in CategoricalNow THEN Num(SingleRowCode(v)) ELSE v
    ELSE Num(StandardScalerTransform(
               col,
               IF col \in CategoricalNow
                 THEN LabelEncoderTransform(server_preprocessors.classes_, v)
                 ELSE v.n))
C13_SchemaOrderAlignment ==
  (IsSingle /\ Loaded /\ MissingOf(call.input[1]) = {}
   /\ AlignNow(call.input[1]).ok)
  =>
    /\ Len(AlignNow(call.input[1]).X) = Len(FeatureNamesNow)
    /\ \A i \in DOMAIN FeatureNamesNow :
         AlignNow(call.input[1]).X[i]
           = CellNow(FeatureNamesNow[i], call.input[1][FeatureNamesNow[i]])
    /\ \A o \in KeyOrders(call.input[1]) :
         GetColumns(DataFrame(o, call.input[1]), FeatureNamesNow)
           = GetColumns(DataFrame(KeyOrder(call.input[1]), call.input[1]),
                        FeatureNamesNow)
C13_Witness ==
  /\ IsSingle /\ Loaded /\ call.res.ok
  /\ FeatureNamesNow = <<"b", "a">>
  /\ DOMAIN call.input[1] = {"a", "b", "e"}
  /\ call.input[1]["a"] = Num(2)

\* C14 (as claimed): a record whose keys include every schema feature is
\* aligned without error, to the row of the record cut down to the schema's
\* features, and gets that record's prediction.
Restricted(r) ==
  [k \in DOMAIN r \cap SeqRange(FeatureNamesNow) |-> r[k]]
NonNumericUnderNumeric(r) ==
  \E c \in (SeqRange(FeatureNamesNow) \ CategoricalNow) \cap DOMAIN r : ~r[c].num
C15_NonNumericRejected ==
  (IsSingle /\ Loaded /\ MissingOf(call.input[1]) = {}
   /\ NonNumericUnderNumeric(call.input[1]))
  =>
    /\ ~AlignNow(call.input[1]).ok
    /\ call.res.calls = 0

\* C16: a schema document without a required key is never the loaded one:
\* MODEL_LOADED stays false and /health reports unhealthy.
C16_SchemaKeysRequired ==
  (impl = "model" /\ SCHEMA.lacks # {}) =>
    /\ ~MODEL_LOADED
    /\ call.op = "health" => call.health = HealthResponse(FALSE)

\* C17: after a failed load at start the process is up, /health reports
\* unhealthy with model_loaded false, and scoring requests get errors.
C17_StartupFailureUnhealthy ==
  /\ phase # "dead"
  /\ (phase = "serving" /\ ~Loaded) =>
       /\ call.op = "health" => call.health = HealthResponse(FALSE)
       /\ IsScoring => ~call.res.ok /\ call.status # 200

C19_NoRetry ==
  (call.op \in {"score", "score_batch"} /\ call.res.err = "backend error") =>
    /\ call.res.calls <= 1
    /\ call.res.cause = ""
    /\ call.status = 400
C19_Witness ==
  /\ call.op = "score" /\ call.res.err = "backend error"
  /\ call.res.calls = 1

\* C20 (as claimed): a prediction call leaves every field of the server
\* object and every module global as it was.
C20_NoSharedStateTouched ==
  [][(call = NoCall /\ call'.op \in ScoringOps) =>
       UNCHANGED <<impl, phase, bound, MODEL, SCHEMA, MODEL_LOADED, self_model,
                   self_schema, server_model, server_preprocessors,
                   server_metadata, prediction_count, tool>>]_vars

\* C20 (amended): a prediction call leaves the model, the schema or
\* metadata and the preprocessors as they were, and adds to prediction_count
\* the number of predictions it made.
PredictionsMade(c) ==
  IF c.op \in {"score", "score_single"} THEN (IF c.res.ok THEN 1 ELSE 0)
  ELSE IF c.op = "score_batch" THEN (IF c.res.ok THEN Len(c.input) ELSE 0)
  ELSE Cardinality({i \in DOMAIN c.input :
                      \A j \in 1..i : ~FailsAlone(c.input[j])})
C20_OnlyCountTouched ==
  [][(call = NoCall /\ call'.op \in ScoringOps) =>
       /\ UNCHANGED <<impl, phase, bound, MODEL, SCHEMA, MODEL_LOADED,
                      self_model, self_schema, server_model,
                      server_preprocessors, server_metadata>>
       /\ prediction_count' = prediction_count + PredictionsMade(call')]_vars
C20_Witness ==
  /\ IsBatch /\ call.res.ok /\ Len(call.input) = 2
  /\ prediction_count = 3

BatchEndpointOps ==
  {"BatchPredictionRequest", "score_batch", "bk_score_batch", "score_csv"}
SizeErrors ==
  {"ValueError: Features list cannot be empty",
   "ValueError: Batch size cannot exceed 1000 samples",
   "ValueError: No instances provided for batch prediction",
   "ValueError: Batch size too large (max 1000 instances)",
   "ValueError: CSV too large (max 1000 rows)"}
C22_BatchSizeLimits ==
  (call.op \in BatchEndpointOps
   /\ call.res.err # "ValueError: File must be a CSV")
  =>
    /\ (Len(call.input) = 0 \/ Len(call.input) > BatchLimit)
         <=> call.res.err \in SizeErrors
    /\ call.res.err \in SizeErrors =>
         call.res.calls = 0 /\ call.res.added = 0 /\ call.status # 200

\* C23: the schema the server has loaded gives the trainer's feature order,
\* the trainer's categorical columns and the trainer's code for every
\* category of the training frame.
C23_SchemaRoundTrip ==
  (impl = "model" /\ MODEL_LOADED /\ SCHEMA.lacks = {}) =>
    /\ SCHEMA.feature_names = FeatureOrderOf(SCHEMA.training_timestamp)
    /\ SCHEMA.categorical_columns = ObjectColumns
    /\ \A c \in SeqRange(SCHEMA.categorical_columns), s \in TrainingCategories :
         CellNow(c, Str(s)) = Num(TrainerCode(s))

\* C24: the answer does not depend on the backend: from the same task type
\* and the same model output the lightgbm branch and the xgboost branch
\* return the same prediction and the same probability.
ProbaOf(raw) == IF IsScalar(raw) THEN <<Scale - raw.v, raw.v>> ELSE raw.vec
ClassOf(raw) == IF IsScalar(raw) THEN IntGtHalf(raw.v) ELSE argmax(raw.vec)
LightgbmBranch(raw) == lightgbm_result(server_metadata, raw)
XgboostBranch(raw) ==
  xgboost_result(server_metadata, ClassOf(raw), ProbaOf(raw), raw)
OtherBackend(schema) ==
  [schema EXCEPT !.model_type = IF @ = "lightgbm" THEN "xgboost" ELSE "lightgbm"]
C25_NotLoadedRefused ==
  [][(call = NoCall /\ impl = "model") =>
       /\ call'.op \in {"score", "score_batch"} =>
            IF MODEL_LOADED
              THEN call'.res.err # "RuntimeError: Model not loaded"
              ELSE /\ call'.res.err = "RuntimeError: Model not loaded"
                   /\ call'.res.names = {}
                   /\ call'.res.calls = 0
                   /\ call'.status = 400
                   /\ prediction_count' = prediction_count
       /\ call'.op = "model_info" =>
            (call'.status = 503 <=> ~MODEL_LOADED)]_vars
C25_Witness ==
  /\ impl = "model" /\ ~MODEL_LOADED /\ ~SCHEMA.none
  /\ call.op = "score_batch"
  /\ call.res.err = "RuntimeError: Model not loaded"
  /\ \E i \in DOMAIN call.input : MissingOf(call.input[i]) # {}

\* C26: a /model/reload that answers with an error leaves MODEL, SCHEMA and
\* MODEL_LOADED as they were.
C26_FailedReloadKeepsState ==
  [][(call = NoCall /\ call'.op = "reload" /\ call'.status # 200) =>
       UNCHANGED <<MODEL, SCHEMA, MODEL_LOADED>>]_vars

\* C27: a /model/reload that answers 200 has put the schema and the model of
\* one artifact in place; every request reads the schema and the model that
\* are in place when it starts, /health and /model/info tell of that
\* schema, and nothing but a load replaces them.
C27_ReloadTakesEffect ==
  [][(call = NoCall /\ impl = "model" /\ phase = "serving") =>
       /\ (call'.op = "reload" /\ call'.status = 200) =>
            /\ MODEL_LOADED'
            /\ \E v \in ArtifactIds :
                 SCHEMA' = TrainedSchema(v) /\ MODEL' = TrainedModel(v)
       /\ call'.op # "reload" => UNCHANGED <<MODEL, SCHEMA, MODEL_LOADED>>
       /\ call'.op = "score" =>
            call'.res = predict(MODEL_LOADED, SCHEMA, MODEL, call'.input[1])
       /\ call'.op = "score_batch" =>
            call'.res = predict_batch(MODEL_LOADED, SCHEMA, MODEL, call'.input)
       /\ call'.op = "health" => call'.info = HealthInfo(SCHEMA)
       /\ (call'.op = "model_info" /\ call'.status = 200) =>
            call'.info = ModelInfo(SCHEMA)]_vars
C27_Witness ==
  /\ call.op = "reload" /\ call.status = 200
  /\ prediction_count > 0
  /\ MODEL_LOADED /\ SCHEMA.training_timestamp = MODEL.ts

\* C28: prediction_count grows by the number of records of a request that
\* is answered 200 and not at all by a request that fails.
RecordsOf(c) == IF c.op \in {"score", "score_single"} THEN 1 ELSE Len(c.input)
C29_InvalidInputIs400 ==
  (/\ impl = "backup" /\ (IsSingle \/ IsBatch) /\ Loaded
   /\ ~AlignNow(call.input[1]).ok)
  => call.status = 400

\* C30: approve_intent without an intent id exits with status 2 and
\* publishes nothing; with one it publishes one message, which carries the
\* id and the decision approve, and prints Published only once the publish
\* is confirmed.
Printed(line) == \E i \in DOMAIN tool.stdout : tool.stdout[i] = line
C30_PublishedAfterConfirmation ==
  impl = "approve_intent" =>
    /\ (Len(tool.argv) < 2 /\ tool.pc = "exited") =>
         tool.exit = 2 /\ tool.published = <<>>
    /\ Len(tool.published) <= 1
    /\ \A i \in DOMAIN tool.published :
         tool.published[i] = ApprovalMessage(tool.argv[2])
    /\ Printed("Published") => tool.confirmed

====
